---- MODULE Spec2Model ----
(***************************************************************************)
(* Model of src/main.py (class PlotClimbs): the two pickle caches, the     *)
(* normalisation of the climbs fetched from the API and the expansion of   *)
(* the climbs into the dense (date, grade, count) table.                   *)
(*                                                                         *)
(* Time.  Timestamps of climbs are counted in slots, SlotsPerDay slots to  *)
(* a day (the time of day of a datetime64[s] value, at the resolution of   *)
(* the model).  The wall clock `now` is counted in ticks of DaysPerTick    *)
(* days.  A run of the program is PlotClimbs() followed by main(): pc goes *)
(* idle -> init -> main -> done, or to crashed when an exception leaves    *)
(* the process.                                                            *)
(***************************************************************************)
EXTENDS Integers, Sequences, FiniteSets, TLC

VARIABLES
    now,          \* wall clock, in ticks
    remote,       \* what GET URL_CLIMBS returns at this moment (list of records)
    climbsFile,   \* df_climbs.pkl
    datesFile,    \* df_dates_grades.pkl
    pc,           \* position of the current run
    climbsLoaded, \* self.climbs has been assigned
    climbs,       \* self.climbs
    out,          \* df_dates_grades handed to the chart stage (when pc = "done")
    err,          \* which step raised, when pc = "crashed"
    gets,         \* HTTP GETs of this run
    expands,      \* expansions (cross merge + apply) of this run
    writes,       \* to_pickle calls of this run, per file
    loads,        \* the cache paths entered in this run, in order
    snapshot,     \* history: both files as they were when this run started
    prev          \* history: the output of the run before this one, if it completed

vars == <<now, remote, climbsFile, datesFile, pc, climbsLoaded, climbs, out, err,
          gets, expands, writes, loads, snapshot, prev>>

----------------------------------------------------------------------------
(* Bounds of the model *)

FirstNow == 1
MaxNow == 5
DaysPerTick == 5
SlotsPerDay == 2
MaxRows == 2

(* JSON null, and pandas' missing timestamp *)
Null == -1
NaT == -2

----------------------------------------------------------------------------
(* Files *)

NoFile == [exists |-> FALSE, readable |-> FALSE, content |-> <<>>, mtime |-> 0]

(* timedelta(days=10), and the default age_max=None *)
ClimbsAgeMax == [isNone |-> FALSE, days |-> 10]
DatesGradesAgeMax == [isNone |-> FALSE, days |-> 10]
AgeNone == [isNone |-> TRUE, days |-> 0]

(* datetime.now() - datetime.fromtimestamp(f.stat().st_mtime), in days *)
Age(f, clock) == (clock - f.mtime) * DaysPerTick

(* _load_pickle with the comparison of the age dropped: any existing file is read *)
load_pickle_ignores_age(f, age_max, clock) ==
    IF f.exists
    THEN IF f.readable THEN [kind |-> "df", df |-> f.content]
                       ELSE [kind |-> "raise", df |-> <<>>]
    ELSE [kind |-> "none", df |-> <<>>]

(* _load_pickle with the test for age_max None left out: None compares as 0 days *)
load_pickle_none_is_zero(f, age_max, clock) ==
    IF f.exists /\ Age(f, clock) < age_max.days
    THEN IF f.readable THEN [kind |-> "df", df |-> f.content]
                       ELSE [kind |-> "raise", df |-> <<>>]
    ELSE [kind |-> "none", df |-> <<>>]

(* _load_pickle with the comparison turned round: only a stale file is read *)
load_pickle_inverted(f, age_max, clock) ==
    IF f.exists /\ (age_max.isNone \/ Age(f, clock) >= age_max.days)
    THEN IF f.readable THEN [kind |-> "df", df |-> f.content]
                       ELSE [kind |-> "raise", df |-> <<>>]
    ELSE [kind |-> "none", df |-> <<>>]

(* _load_pickle: the table, None, or the exception of pd.read_pickle *)
load_pickle(f, age_max, clock) ==
    IF f.exists /\ (age_max.isNone \/ Age(f, clock) < age_max.days)
    THEN IF f.readable THEN [kind |-> "df", df |-> f.content]
                       ELSE [kind |-> "raise", df |-> <<>>]
    ELSE [kind |-> "none", df |-> <<>>]

(* _save_df_to_pickle: the file after df.to_pickle returned *)
save_df_to_pickle(df, clock) ==
    [exists |-> TRUE, readable |-> TRUE, content |-> df, mtime |-> clock]

(* the file after df.to_pickle was cut short: opened for writing, not completed *)
TornFile(clock) ==
    [exists |-> TRUE, readable |-> FALSE, content |-> <<>>, mtime |-> clock]

----------------------------------------------------------------------------
(* Normalisation of the fetched records (_load_climbs, lines 78-83) *)

(* datetime.today() as a timestamp *)
Today(clock) == clock * DaysPerTick * SlotsPerDay

(* astype('datetime64[s]'): null becomes NaT, a time stays that time *)
AsDatetime(x) == IF x = Null THEN NaT ELSE x

(* DataFrame.from_dict(json) with both date columns cast; the index is the position *)
Parsed(json) ==
    [i \in 1..Len(json) |->
        [index |-> i, id |-> json[i].id, grade |-> json[i].grade,
         date_live_start |-> AsDatetime(json[i].date_live_start),
         date_live_end |-> AsDatetime(json[i].date_live_end)]]

(* df.loc[df.date_live_end.isna(), 'date_live_end'] = datetime.today() *)
FillEnd(df, clock) ==
    [i \in 1..Len(df) |->
        IF df[i].date_live_end = NaT
        THEN [df[i] EXCEPT !.date_live_end = Today(clock)]
        ELSE df[i]]

HasStart(row) == row.date_live_start # NaT

(* the normalisation without the dropna of line 83 *)
NormalizeNoDrop(json, clock) == FillEnd(Parsed(json), clock)

(* lines 78-83: parse, fill the open ends, drop the rows without a start *)
Normalize(json, clock) == SelectSeq(FillEnd(Parsed(json), clock), HasStart)

----------------------------------------------------------------------------
(* Expansion (_load_dates_grades, lines 93-104, and _routes_avail_per_day) *)

SeqMin(s) == CHOOSE x \in {s[i] : i \in 1..Len(s)} : \A j \in 1..Len(s) : x <= s[j]
SeqMax(s) == CHOOSE x \in {s[i] : i \in 1..Len(s)} : \A j \in 1..Len(s) : x >= s[j]

(* self.climbs.date_live_start.dropna() *)
Starts(df) ==
    LET kept == SelectSeq(df, HasStart)
    IN [i \in 1..Len(kept) |-> kept[i].date_live_start]

(* pd.date_range(date_min, date_max, freq='D'): date_min, then every 24 hours
   after it, as long as date_max is not passed *)
date_range(date_min, date_max) ==
    [k \in 1..(((date_max - date_min) \div SlotsPerDay) + 1) |->
        date_min + (k - 1) * SlotsPerDay]

RECURSIVE Sorted(_)
Sorted(S) ==
    IF S = {} THEN <<>>
    ELSE LET m == CHOOSE x \in S : \A y \in S : x <= y
         IN <<m>> \o Sorted(S \ {m})

(* sorted(self.climbs.grade.unique()) *)
Grades(df) == Sorted({df[i].grade : i \in 1..Len(df)})

(* df_dates.merge(grades, how='cross') *)
CrossMerge(dates, grades) ==
    [k \in 1..(Len(dates) * Len(grades)) |->
        [date |-> dates[((k - 1) \div Len(grades)) + 1],
         grade |-> grades[((k - 1) % Len(grades)) + 1]]]

(* _routes_avail_per_day with the start compared strictly *)
routes_avail_strict(df, date, grade) ==
    LET SameGrade(r) == r.grade = grade
        Started(r) == r.date_live_start # NaT /\ r.date_live_start < date
        NotEnded(r) == r.date_live_end # NaT /\ r.date_live_end >= date
    IN Len(SelectSeq(SelectSeq(SelectSeq(df, SameGrade), Started), NotEnded))

(* _routes_avail_per_day: three successive filters, then the number of ids;
   a comparison with NaT is False *)
routes_avail_per_day(df, date, grade) ==
    LET SameGrade(r) == r.grade = grade
        Started(r) == r.date_live_start # NaT /\ r.date_live_start <= date
        NotEnded(r) == r.date_live_end # NaT /\ r.date_live_end >= date
    IN Len(SelectSeq(SelectSeq(SelectSeq(df, SameGrade), Started), NotEnded))

(* without any start the extremes are NaT, and pd.date_range raises on NaT *)
ExpandRaises(df) == Len(Starts(df)) = 0

(* lines 93-104 for a non-empty climbs table *)
Expand(df) ==
    LET idx == CrossMerge(date_range(SeqMin(Starts(df)), SeqMax(Starts(df))), Grades(df))
    IN [k \in 1..Len(idx) |->
           [date |-> idx[k].date, grade |-> idx[k].grade,
            count |-> routes_avail_per_day(df, idx[k].date, idx[k].grade)]]

----------------------------------------------------------------------------
(* Inputs *)

Rec(i, g, s, e) == [id |-> i, grade |-> g, date_live_start |-> s, date_live_end |-> e]

GradeValues == {5, 6}
StartValues == {Null, 0, 1, 2, 3}
EndValues == {Null, 1, 2}

(* every list of at most MaxRows records over the values above; ids are distinct *)
RawTables ==
    UNION {{[i \in 1..n |-> Rec(i, t[i][1], t[i][2], t[i][3])] :
               t \in [1..n -> GradeValues \X StartValues \X EndValues]} : n \in 0..MaxRows}

(* the answers of the API the runs of Spec see: one climb; two grades with an
   open end and different times of day; a second version of the catalogue;
   only a climb without a start; an empty array *)
RemoteTables ==
    {<<Rec(1, 5, 0, 3)>>,
     <<Rec(1, 5, 1, Null), Rec(2, 6, 2, 2)>>,
     <<Rec(1, 5, 0, 1), Rec(2, 5, 2, 3)>>,
     <<Rec(1, 6, Null, Null)>>,
     <<>>}

----------------------------------------------------------------------------
(* One run of the program: PlotClimbs().main() *)

NoOutput == [valid |-> FALSE, out |-> <<>>]

(* a run that goes to main() without the _load_climbs of __init__ *)
FirstStageSkipsClimbs == "main"

(* __init__ (line 23) loads the climbs before main() is called *)
FirstStage == "init"

(* the process starts; nothing of an earlier run is left but the two files *)
StartRun ==
    /\ pc \in {"idle", "done", "crashed"}
    /\ pc' = FirstStage
    /\ climbsLoaded' = FALSE
    /\ climbs' = <<>>
    /\ out' = <<>>
    /\ err' = "none"
    /\ gets' = 0
    /\ expands' = 0
    /\ writes' = [climbs |-> 0, dates_grades |-> 0]
    /\ loads' = <<>>
    /\ snapshot' = [climbs |-> climbsFile, dates_grades |-> datesFile]
    /\ prev' = IF pc = "done" THEN [valid |-> TRUE, out |-> out] ELSE NoOutput
    /\ UNCHANGED <<now, remote, climbsFile, datesFile>>

(* an exception that is caught and logged: the run goes on to its end *)
RaiseCaught(e) ==
    /\ pc' = "done"
    /\ err' = e

(* an exception leaves the process: nothing after the raising line runs *)
Raise(e) ==
    /\ pc' = "crashed"
    /\ err' = e

(* _load_climbs, lines 73-87 *)
LoadClimbs ==
    /\ pc = "init"
    /\ loads' = Append(loads, "climbs")
    /\ LET r == load_pickle(climbsFile, ClimbsAgeMax, now) IN
       \/ /\ r.kind = "raise"                      \* pd.read_pickle raises
          /\ Raise("deserialize")
          /\ UNCHANGED <<climbsFile, climbsLoaded, climbs, gets, writes>>
       \/ /\ r.kind = "df"                         \* line 75
          /\ climbs' = r.df
          /\ climbsLoaded' = TRUE
          /\ pc' = "main"
          /\ UNCHANGED <<climbsFile, err, gets, writes>>
       \/ /\ r.kind = "none"                       \* requests.get(...) raises
          /\ gets' = gets + 1
          /\ Raise("fetch")
          /\ UNCHANGED <<climbsFile, climbsLoaded, climbs, writes>>
       \/ /\ r.kind = "none"                       \* [] has no date_live_start column
          /\ Len(remote) = 0
          /\ gets' = gets + 1
          /\ Raise("fetch")
          /\ UNCHANGED <<climbsFile, climbsLoaded, climbs, writes>>
       \/ /\ r.kind = "none"                       \* lines 78-87
          /\ Len(remote) > 0
          /\ gets' = gets + 1
          /\ climbsFile' = save_df_to_pickle(Normalize(remote, now), now)
          /\ writes' = [writes EXCEPT !.climbs = @ + 1]
          /\ climbs' = Normalize(remote, now)
          /\ climbsLoaded' = TRUE
          /\ pc' = "main"
          /\ UNCHANGED err
       \/ /\ r.kind = "none"                       \* to_pickle is cut short
          /\ Len(remote) > 0
          /\ gets' = gets + 1
          /\ climbsFile' = TornFile(now)
          /\ writes' = [writes EXCEPT !.climbs = @ + 1]
          /\ Raise("write")
          /\ UNCHANGED <<climbsLoaded, climbs>>
    /\ UNCHANGED <<now, remote, datesFile, out, expands, snapshot, prev>>

(* _climbs_grades up to the return of _load_dates_grades, lines 34 and 89-109 *)
LoadDatesGrades ==
    /\ pc = "main"
    /\ loads' = Append(loads, "dates_grades")
    /\ LET r == load_pickle(datesFile, DatesGradesAgeMax, now) IN
       \/ /\ r.kind = "raise"                      \* pd.read_pickle raises
          /\ Raise("deserialize")
          /\ UNCHANGED <<datesFile, out, expands, writes>>
       \/ /\ r.kind = "df"                         \* line 91
          /\ out' = r.df
          /\ pc' = "done"
          /\ UNCHANGED <<datesFile, err, expands, writes>>
       \/ /\ r.kind = "none"                       \* pd.date_range(NaT, NaT) raises
          /\ ExpandRaises(climbs)
          /\ expands' = expands + 1
          /\ Raise("expand")
          /\ UNCHANGED <<datesFile, out, writes>>
       \/ /\ r.kind = "none"                       \* lines 93-109
          /\ ~ExpandRaises(climbs)
          /\ expands' = expands + 1
          /\ datesFile' = save_df_to_pickle(Expand(climbs), now)
          /\ writes' = [writes EXCEPT !.dates_grades = @ + 1]
          /\ out' = Expand(climbs)
          /\ pc' = "done"
          /\ UNCHANGED err
       \/ /\ r.kind = "none"                       \* to_pickle is cut short
          /\ ~ExpandRaises(climbs)
          /\ expands' = expands + 1
          /\ datesFile' = TornFile(now)
          /\ writes' = [writes EXCEPT !.dates_grades = @ + 1]
          /\ Raise("write")
          /\ UNCHANGED out
    /\ UNCHANGED <<now, remote, climbsFile, climbsLoaded, climbs, gets, snapshot, prev>>

(* the wall clock advances, during a run or between two runs *)
Tick ==
    /\ now < MaxNow
    /\ now' = now + 1
    /\ UNCHANGED <<remote, climbsFile, datesFile, pc, climbsLoaded, climbs, out, err,
                   gets, expands, writes, loads, snapshot, prev>>

(* the gym changes its catalogue *)
RemoteChange ==
    /\ remote' \in RemoteTables \ {remote}
    /\ UNCHANGED <<now, climbsFile, datesFile, pc, climbsLoaded, climbs, out, err,
                   gets, expands, writes, loads, snapshot, prev>>

NoRun ==
    /\ climbsFile = NoFile
    /\ datesFile = NoFile
    /\ pc = "idle"
    /\ climbsLoaded = FALSE
    /\ climbs = <<>>
    /\ out = <<>>
    /\ err = "none"
    /\ gets = 0
    /\ expands = 0
    /\ writes = [climbs |-> 0, dates_grades |-> 0]
    /\ loads = <<>>
    /\ snapshot = [climbs |-> NoFile, dates_grades |-> NoFile]
    /\ prev = NoOutput

(* a fresh checkout: no cache file yet; every climb of RemoteTables started
   before the first run *)
Init ==
    /\ now = FirstNow
    /\ remote \in RemoteTables
    /\ NoRun

Next == StartRun \/ LoadClimbs \/ LoadDatesGrades \/ Tick \/ RemoteChange

Spec == Init /\ [][Next]_vars

(* The normaliser and the expander on every small answer of the API: runs at
   one moment (before or after the climbs start), against a catalogue that
   does not change *)
InitExpand ==
    /\ now \in {0, 1}
    /\ remote \in RawTables
    /\ NoRun

NextExpand == StartRun \/ LoadClimbs \/ LoadDatesGrades

SpecExpand == InitExpand /\ [][NextExpand]_vars

----------------------------------------------------------------------------
(* Properties *)

Rows(df) == 1..Len(df)

(* a well-formed entry younger than the limit, read off the file itself *)
FreshEntry(f, limit) ==
    f.exists /\ f.readable /\ (now - f.mtime) * DaysPerTick < limit.days

(* no entry, or one at least as old as the limit *)
StaleOrAbsent(f, limit) ==
    ~f.exists \/ (now - f.mtime) * DaysPerTick >= limit.days

(* C1: every row the expander produces holds the number of climbs of the row's
   grade with live_start <= date <= live_end, both ends included; a climb
   with live_start = live_end = date is counted once. *)
C1_CountCorrect ==
    (pc = "done" /\ expands = 1) =>
        \A k \in Rows(out) :
            out[k].count =
                Cardinality({i \in Rows(climbs) :
                    /\ climbs[i].grade = out[k].grade
                    /\ climbs[i].date_live_start <= out[k].date
                    /\ out[k].date <= climbs[i].date_live_end})

(* an expansion with a one-instant climb on a date of the axis, counted once *)
C1_Witness ==
    /\ pc = "done"
    /\ expands = 1
    /\ \E k \in Rows(out) : \E i \in Rows(climbs) :
          /\ climbs[i].date_live_start = out[k].date
          /\ climbs[i].date_live_end = out[k].date
          /\ climbs[i].grade = out[k].grade
          /\ out[k].count = 1
    /\ \E k \in Rows(out) : \E i \in Rows(climbs) :
          /\ climbs[i].date_live_start < out[k].date
          /\ climbs[i].date_live_end = out[k].date
          /\ climbs[i].grade = out[k].grade
          /\ out[k].count >= 1

(* C2: a load that finds a well-formed entry younger than max_age returns the
   persisted table, and in that load nothing is fetched or recomputed and no
   file is written: both entries, modification times included, stay as they
   were. *)
C2_HitNoFetchNoWrite ==
    [][ /\ (pc = "init" /\ pc' # "init" /\ FreshEntry(climbsFile, ClimbsAgeMax)) =>
            /\ pc' = "main"
            /\ climbs' = climbsFile.content
            /\ climbsFile' = climbsFile /\ datesFile' = datesFile
            /\ gets' = gets /\ expands' = expands /\ writes' = writes
        /\ (pc = "main" /\ pc' # "main" /\ FreshEntry(datesFile, DatesGradesAgeMax)) =>
            /\ pc' = "done"
            /\ out' = datesFile.content
            /\ climbsFile' = climbsFile /\ datesFile' = datesFile
            /\ gets' = gets /\ expands' = expands /\ writes' = writes
      ]_vars

(* a run in which both loads were hits on entries written by an earlier run *)
C2_Witness ==
    /\ pc = "done"
    /\ gets = 0 /\ expands = 0
    /\ writes = [climbs |-> 0, dates_grades |-> 0]
    /\ climbsFile = snapshot.climbs /\ datesFile = snapshot.dates_grades
    /\ climbs = climbsFile.content /\ out = datesFile.content
    /\ Len(out) > 0

(* C3: a load that finds no entry, or one whose age is max_age or more, and
   returns, has done exactly one fetch (the GET for the climbs, the expansion
   for the derived table) and exactly one write, which replaced the entry at
   that key by the table it returns; a load of that key at any later moment
   less than max_age after it is a hit on that table. *)
C3_MissFetchesOnceWritesOnce ==
    [][ /\ (pc = "init" /\ pc' = "main" /\ StaleOrAbsent(climbsFile, ClimbsAgeMax)) =>
            /\ gets' = gets + 1 /\ expands' = expands
            /\ writes' = [writes EXCEPT !.climbs = @ + 1]
            /\ datesFile' = datesFile
            /\ climbsFile'.exists /\ climbsFile'.readable
            /\ climbsFile'.mtime = now
            /\ climbsFile'.content = climbs'
            /\ \A t \in now..MaxNow :
                  (t - now) * DaysPerTick < ClimbsAgeMax.days =>
                      load_pickle(climbsFile', ClimbsAgeMax, t) = [kind |-> "df", df |-> climbs']
        /\ (pc = "main" /\ pc' = "done" /\ StaleOrAbsent(datesFile, DatesGradesAgeMax)) =>
            /\ expands' = expands + 1 /\ gets' = gets
            /\ writes' = [writes EXCEPT !.dates_grades = @ + 1]
            /\ climbsFile' = climbsFile
            /\ datesFile'.exists /\ datesFile'.readable
            /\ datesFile'.mtime = now
            /\ datesFile'.content = out'
            /\ \A t \in now..MaxNow :
                  (t - now) * DaysPerTick < DatesGradesAgeMax.days =>
                      load_pickle(datesFile', DatesGradesAgeMax, t) = [kind |-> "df", df |-> out']
      ]_vars

(* a run that found both entries expired and replaced both *)
C3_Witness ==
    /\ pc = "done"
    /\ gets = 1 /\ expands = 1
    /\ writes = [climbs |-> 1, dates_grades |-> 1]
    /\ snapshot.climbs.exists /\ snapshot.dates_grades.exists
    /\ climbsFile # snapshot.climbs /\ datesFile # snapshot.dates_grades
    /\ climbsFile.content = climbs /\ datesFile.content = out

(* the calendar day of a timestamp *)
DayOf(ts) == ts \div SlotsPerDay

(* C4: the expander puts out (calendar days from the least to the greatest
   live_start, both included) times (distinct grades) rows, whatever the times
   of day of the two extremes. *)
C4_RowsAreDaysTimesGrades ==
    (pc = "done" /\ expands = 1) =>
        Len(out) =
            (DayOf(SeqMax(Starts(climbs))) - DayOf(SeqMin(Starts(climbs))) + 1)
                * Cardinality({climbs[i].grade : i \in Rows(climbs)})

(* C5: a completed run that follows a completed run and does not contact the
   API (its raw entry is within the freshness window) leaves the content of
   both cache entries as it found it and hands on the same table as the run
   before it. *)
C5_SecondRunIdentical ==
    (pc = "done" /\ gets = 0 /\ prev.valid) =>
        /\ climbsFile.content = snapshot.climbs.content
        /\ datesFile.content = snapshot.dates_grades.content
        /\ out = prev.out

(* C6: in every run the derived cache path is entered, and the derived entry
   expanded or written, only after the raw cache path has completed and
   self.climbs is loaded. *)
C6_DerivedAfterRaw ==
    /\ \A i \in 1..Len(loads) :
          loads[i] = "dates_grades" => (i = 2 /\ loads[1] = "climbs" /\ climbsLoaded)
    /\ (pc \in {"init", "main", "done", "crashed"} /\ datesFile # snapshot.dates_grades)
          => climbsLoaded
    /\ expands > 0 => climbsLoaded
    /\ pc = "done" => loads = <<"climbs", "dates_grades">>

(* a run that loaded the climbs and then expanded and wrote the derived table *)
C6_Witness ==
    /\ pc = "done"
    /\ loads = <<"climbs", "dates_grades">>
    /\ expands = 1
    /\ datesFile # snapshot.dates_grades

(* C7: every row of the table _load_climbs builds from the answer of the API
   has a live_start and a live_end: the rows kept are exactly the records with
   a live_start, and an absent live_end is the wall-clock time of the load. *)
C7_NormalizedNonNull ==
    /\ (pc \in {"main", "done"} /\ gets = 1) =>
          /\ \A i \in Rows(climbs) :
                /\ climbs[i].date_live_start # NaT
                /\ climbs[i].date_live_end # NaT
                /\ remote[climbs[i].index].date_live_end = Null
                      => climbs[i].date_live_end = Today(now)
                /\ remote[climbs[i].index].date_live_end # Null
                      => climbs[i].date_live_end = remote[climbs[i].index].date_live_end
          /\ {climbs[i].index : i \in Rows(climbs)}
                = {j \in 1..Len(remote) : remote[j].date_live_start # Null}
          /\ Len(climbs) = Cardinality({j \in 1..Len(remote) : remote[j].date_live_start # Null})
          /\ climbsFile.content = climbs
    /\ climbsFile.readable =>
          \A i \in Rows(climbsFile.content) :
              /\ climbsFile.content[i].date_live_start # NaT
              /\ climbsFile.content[i].date_live_end # NaT

(* a fetch of a record without a start and a record with a start and no end *)
C7_Witness ==
    /\ pc = "main"
    /\ gets = 1
    /\ \E j \in 1..Len(remote) : remote[j].date_live_start = Null
    /\ \E i \in Rows(climbs) :
          /\ remote[climbs[i].index].date_live_end = Null
          /\ climbs[i].date_live_end = Today(now)

(* C8: when a fetch, a deserialisation or the expansion raises, the run ends
   there: no cache entry is written or changed by the failing load, nothing of
   the run executes after it, and only a new run follows. *)
C8_FailureEndsRun ==
    [][ /\ (err = "none" /\ err' # "none") =>
            /\ pc' = "crashed"
            /\ err' \in {"fetch", "deserialize", "expand"} =>
                  /\ climbsFile' = climbsFile /\ datesFile' = datesFile
                  /\ writes' = writes
            /\ out' = out /\ climbs' = climbs /\ climbsLoaded' = climbsLoaded
        /\ pc = "crashed" =>
            /\ err # "none"
            /\ out = <<>>
            /\ climbsFile' = climbsFile /\ datesFile' = datesFile
            /\ pc' \in {"crashed", "init"}
      ]_vars

(* a run that failed in the expansion, after the raw entry was written, with an
   older derived entry still in place *)
C8_Witness ==
    /\ pc = "crashed"
    /\ err = "expand"
    /\ datesFile.exists /\ datesFile = snapshot.dates_grades
    /\ writes = [climbs |-> 1, dates_grades |-> 0]

(* C9: _load_pickle with age_max None returns the persisted table whenever a
   well-formed entry exists, whatever its age, and returns None only when no
   entry exists. *)
C9_NoneNeverExpires ==
    \A f \in {climbsFile, datesFile} :
        /\ (f.exists /\ f.readable) =>
              load_pickle(f, AgeNone, now) = [kind |-> "df", df |-> f.content]
        /\ load_pickle(f, AgeNone, now).kind = "none" <=> ~f.exists

(* an entry that the 10-day limit rejects and a load without limit returns *)
C9_Witness ==
    /\ climbsFile.exists /\ climbsFile.readable
    /\ (now - climbsFile.mtime) * DaysPerTick >= ClimbsAgeMax.days
    /\ load_pickle(climbsFile, ClimbsAgeMax, now).kind = "none"
    /\ load_pickle(climbsFile, AgeNone, now).kind = "df"

(* C10: the availability table a run hands to the chart stage is the expansion
   of the climb table that run loaded. *)
C10_OutputMatchesClimbs ==
    pc = "done" => (~ExpandRaises(climbs) /\ out = Expand(climbs))

====
